---- MODULE Spec2Model ----
(***************************************************************************)
(* Model of source/sphinxext/snippets.py: the Sphinx extension that        *)
(* collects code snippets (inline directives and remote files), and        *)
(* resolves snippet-display placeholders against them.                     *)
(*                                                                         *)
(* Strings are sequences of one-character strings, so that len, slicing,   *)
(* strip, split, expandtabs and substring containment are computed as      *)
(* Python computes them.                                                   *)
(***************************************************************************)
EXTENDS Integers, Sequences, FiniteSets, TLC

VARIABLES
    \* ---- host (Sphinx) side -------------------------------------------
    phase,                  \* position in the build lifecycle
    build,                  \* number of the current build on this environment
    snippet_language_list,  \* conf.py setting: <<>> when unset, <<list>> when set
    doctree,                \* the SnippetDisplayNodes of each document's tree
    warnings,               \* app.warn log of the current build
    err,                    \* <<exception, callback, docname>> that aborted the build, or <<>>
    urlopen_calls,          \* the urllib2.urlopen calls of this build, with their outcome
    env_updated,            \* firings of env-updated in this build
    \* ---- env attributes set by the extension --------------------------
    snippet_all,
    snippet_display,
    snippet_languages,
    snippet_pulled,
    \* ---- one run of the generator SnippetNodeBuilder.parse -------------
    parse_language,         \* the language argument
    code_file,              \* the lines read from code_file so far
    gen,                    \* the generator's frame: lineno, builder, yielded nodes, warnings
    parse_done              \* TRUE once the iterator is exhausted

hostVars  == <<phase, build, snippet_language_list, doctree, warnings, err,
               urlopen_calls, env_updated>>
envVars   == <<snippet_all, snippet_display, snippet_languages, snippet_pulled>>
parseVars == <<parse_language, code_file, gen, parse_done>>
vars      == <<hostVars, envVars, parseVars>>

----------------------------------------------------------------------------
(* Bounds of the model *)

MaxLangs   == 2     \* entries of snippet_language_list
MaxInline  == 2     \* snippet directives read per build
MaxDisplay == 2     \* snippet-display directives read per build
MaxPulls   == 2     \* firings of env-updated per build
MaxResolve == 2     \* firings of doctree-resolved on one document tree
MaxBuilds  == 2     \* builds run on the same (pickled) environment
MaxLines   == 4     \* lines of a code file given to the parser
MaxLineno  == 12    \* line numbers given to get_pretty_url

----------------------------------------------------------------------------
(* Python strings *)

SP  == " "
TAB == "\t"
NL  == "\n"
CR  == "\r"
FF  == "\f"
VT  == ""

\* the characters str.strip, str.lstrip, str.rstrip and str.split() take for
\* whitespace (isspace of the C locale)
Whitespace == {SP, TAB, NL, CR, FF, VT}

\* the characters unicode.rstrip takes for whitespace: those above and the
\* separators U+001C..U+001F, U+0085, U+00A0, U+1680, U+180E, U+2000..U+200A,
\* U+2028, U+2029, U+202F, U+205F, U+3000 (a character above U+00FF is
\* written by its code point)
UnicodeWhitespace ==
    Whitespace \cup
    {"", "", "", "", "", " ",
     "U+1680", "U+180E", "U+2000", "U+2001", "U+2002", "U+2003", "U+2004",
     "U+2005", "U+2006", "U+2007", "U+2008", "U+2009", "U+200A", "U+2028",
     "U+2029", "U+202F", "U+205F", "U+3000"}

\* the bytes 0x80..0xFF of a str, each written as the character of that code
\* point: what the ascii codec cannot decode
NonAscii ==
    {"", "", "", "", "", "", "", "", "", "", "", "", "", "", "", "",
     "", "", "", "", "", "", "", "", "", "", "", "", "", "", "", "",
     " ", "¡", "¢", "£", "¤", "¥", "¦", "§", "¨", "©", "ª", "«", "¬", "­", "®", "¯",
     "°", "±", "²", "³", "´", "µ", "¶", "·", "¸", "¹", "º", "»", "¼", "½", "¾", "¿",
     "À", "Á", "Â", "Ã", "Ä", "Å", "Æ", "Ç", "È", "É", "Ê", "Ë", "Ì", "Í", "Î", "Ï",
     "Ð", "Ñ", "Ò", "Ó", "Ô", "Õ", "Ö", "×", "Ø", "Ù", "Ú", "Û", "Ü", "Ý", "Þ", "ß",
     "à", "á", "â", "ã", "ä", "å", "æ", "ç", "è", "é", "ê", "ë", "ì", "í", "î", "ï",
     "ð", "ñ", "ò", "ó", "ô", "õ", "ö", "÷", "ø", "ù", "ú", "û", "ü", "ý", "þ", "ÿ"}

\* sub in s
In(sub, s) ==
    \E i \in 0..(Len(s) - Len(sub)) : SubSeq(s, i + 1, i + Len(sub)) = sub

\* s[n:]
SliceFrom(s, n) == SubSeq(s, n + 1, Len(s))

\* number of leading whitespace characters of s
LeadingWs(s) ==
    CHOOSE n \in 0..Len(s) :
        /\ \A i \in 1..n : s[i] \in Whitespace
        /\ (n = Len(s) \/ s[n + 1] \notin Whitespace)

\* number of trailing whitespace characters of s
TrailingWs(s) ==
    CHOOSE n \in 0..Len(s) :
        /\ \A i \in (Len(s) - n + 1)..Len(s) : s[i] \in Whitespace
        /\ (n = Len(s) \/ s[Len(s) - n] \notin Whitespace)

lstrip(s) == SliceFrom(s, LeadingWs(s))
rstrip(s) == SubSeq(s, 1, Len(s) - TrailingWs(s))

\* s.rstrip() of a unicode string
unicode_rstrip(s) ==
    LET n == CHOOSE m \in 0..Len(s) :
                /\ \A i \in (Len(s) - m + 1)..Len(s) : s[i] \in UnicodeWhitespace
                /\ (m = Len(s) \/ s[Len(s) - m] \notin UnicodeWhitespace)
    IN SubSeq(s, 1, Len(s) - n)

strip(s)  == rstrip(lstrip(s))

\* length of the first whitespace-free run of s
FirstWord(s) ==
    CHOOSE n \in 0..Len(s) :
        /\ \A i \in 1..n : s[i] \notin Whitespace
        /\ (n = Len(s) \/ s[n + 1] \in Whitespace)

\* s.split()
RECURSIVE split(_)
split(s) ==
    LET t == lstrip(s) IN
    IF t = <<>> THEN <<>>
    ELSE <<SubSeq(t, 1, FirstWord(t))>> \o split(SliceFrom(t, FirstWord(t)))

\* s.expandtabs(tabsize), from column col on
RECURSIVE ExpandFrom(_, _, _)
ExpandFrom(s, col, tabsize) ==
    IF s = <<>> THEN <<>>
    ELSE IF Head(s) = TAB
         THEN LET n == tabsize - (col % tabsize) IN
              [i \in 1..n |-> SP] \o ExpandFrom(Tail(s), col + n, tabsize)
         ELSE <<Head(s)>> \o
              ExpandFrom(Tail(s), IF Head(s) \in {NL, CR} THEN 0 ELSE col + 1,
                         tabsize)

expandtabs(s, tabsize) == ExpandFrom(s, 0, tabsize)

\* sep.join(strs)
RECURSIVE join(_, _)
join(sep, strs) ==
    IF strs = <<>> THEN <<>>
    ELSE IF Len(strs) = 1 THEN strs[1]
    ELSE strs[1] \o sep \o join(sep, Tail(strs))

\* repr(n) of a non-negative int
Digit(d) == <<"0", "1", "2", "3", "4", "5", "6", "7", "8", "9">>[d + 1]

RECURSIVE repr(_)
repr(n) == IF n < 10 THEN <<Digit(n)>> ELSE repr(n \div 10) \o <<Digit(n % 10)>>

----------------------------------------------------------------------------
(* class Language *)

None == <<>>

\* Language.__init__: every config key becomes an attribute
Language(config) ==
    ("has_remote_source" :>
        ({"gh_repository", "gh_branch", "gh_path"} \subseteq DOMAIN config))
    @@ config

get_raw_url(language) ==
    IF ~language.has_remote_source THEN None
    ELSE <<"https://raw.githubusercontent.com/">> \o language.gh_repository
         \o <<"/">> \o language.gh_branch \o <<"/">> \o language.gh_path

\* get_pretty_url appending the anchor whether or not a line is given
get_pretty_url_AlwaysAnchor(language, lineno) ==
    IF ~language.has_remote_source THEN None
    ELSE <<"https://github.com/">> \o language.gh_repository
         \o <<"/blob/">> \o language.gh_branch
         \o <<"/">> \o language.gh_path \o <<"#L">> \o repr(lineno)

\* lineno = 0 stands for the default None (both are false in "if lineno")
get_pretty_url(language, lineno) ==
    IF ~language.has_remote_source THEN None
    ELSE LET url == <<"https://github.com/">> \o language.gh_repository
                    \o <<"/blob/">> \o language.gh_branch
                    \o <<"/">> \o language.gh_path
         IN IF lineno # 0 THEN url \o <<"#L">> \o repr(lineno) ELSE url

----------------------------------------------------------------------------
(* class SingleSnippetNode *)

\* the values given as content: a string, a list of str lines (the lines of
\* a remote file), a list of unicode lines (the content of a directive)
Basestring(s)      == [type |-> "basestring", value |-> s]
StrList(lines)     == [type |-> "list of str", value |-> lines]
UnicodeList(lines) == [type |-> "list of unicode", value |-> lines]

\* an exception leaving a call, in place of the value the call returns
Raise(exception) == [raises |-> exception]
Raises(result)   == "raises" \in DOMAIN result

\* SingleSnippetNode.__init__; lineno = 0 for None.
\* "literal" is the text of the wrapped literal_block, "highlight" its language.
\* u'\n'.join of a list of str decodes every item with the ascii codec: an
\* item holding a byte above 0x7F raises UnicodeDecodeError and no node is
\* made.
SingleSnippetNode(key, language, content, lineno) ==
    LET items == IF content.type = "basestring" THEN <<>>
                 ELSE [i \in 1..Len(content.value) |->
                          IF content.type = "list of unicode"
                          THEN unicode_rstrip(content.value[i])
                          ELSE rstrip(content.value[i])]
        body == IF content.type = "basestring"
                THEN content.value
                ELSE join(<<NL>>, items)
        node == [key           |-> key,
                 language      |-> language.key,
                 language_name |-> language.name,
                 literal       |-> body,
                 highlight     |-> language.highlight]
    IN IF /\ content.type = "list of str"
          /\ \E i \in DOMAIN items : \E j \in DOMAIN items[i] :
                 items[i][j] \in NonAscii
       THEN Raise("UnicodeDecodeError")
       ELSE IF lineno # 0
       THEN ("source_url" :> get_pretty_url(language, lineno)) @@ node
       ELSE node

----------------------------------------------------------------------------
(* class SnippetNodeBuilder *)

snippet_start  == <<"s","n","i","p","p","e","t","-","s","t","a","r","t">>
snippet_end    == <<"s","n","i","p","p","e","t","-","e","n","d">>
snippet_ignore == <<"s","n","i","p","p","e","t","-","i","g","n","o","r","e">>

begin_string(language)  == language.line_comment \o <<SP>> \o snippet_start
end_string(language)    == language.line_comment \o <<SP>> \o snippet_end
ignore_string(language) == language.line_comment \o <<SP>> \o snippet_ignore

\* SnippetNodeBuilder.__init__ recording the line number counted from 0
SnippetNodeBuilder_ZeroBased(key, language, lineno) ==
    [key |-> key, language |-> language, lineno |-> lineno - 1, lines |-> <<>>]

\* SnippetNodeBuilder.__init__
SnippetNodeBuilder(key, language, lineno) ==
    [key |-> key, language |-> language, lineno |-> lineno, lines |-> <<>>]

\* SnippetNodeBuilder.append
append(builder, line) ==
    [builder EXCEPT !.lines = Append(@, expandtabs(line, 8))]

\* to_node measuring the indentation on every line instead of the first
to_node_OwnIndent(builder) ==
    LET justified_lines ==
            [i \in 1..Len(builder.lines) |-> lstrip(builder.lines[i])]
    IN SingleSnippetNode(builder.key, builder.language, StrList(justified_lines),
                         builder.lineno)

\* SnippetNodeBuilder.to_node
to_node(builder) ==
    LET justified_lines ==
            IF Len(builder.lines) > 0
            THEN LET spaces == Len(builder.lines[1]) - Len(lstrip(builder.lines[1]))
                 IN [i \in 1..Len(builder.lines) |-> SliceFrom(builder.lines[i], spaces)]
            ELSE <<>>
    IN SingleSnippetNode(builder.key, builder.language, StrList(justified_lines),
                         builder.lineno)

\* The frame of the generator parse before the first line.
\* builder is <<>> for None and <<b>> for a live builder.
\* pc is "loop" at the top of the for loop, "yield" while the generator is
\* suspended at the yield statement and "raised" once an exception (err) has
\* left the generator, which is then finished; yielded and warned record the
\* nodes handed to the consumer and the calls of app.warn.
ParseStart == [lineno |-> 0, builder |-> <<>>, yielded |-> <<>>, warned |-> <<>>,
               pc |-> "loop", err |-> ""]

\* parse_line without the test for the ignore marker: every line read while a
\* snippet is collected is appended
parse_line_NoIgnore(g, line, language) ==
    LET lineno == g.lineno + 1
        g1     == [g EXCEPT !.lineno = lineno]
    IN IF In(end_string(language), line) /\ g.builder # <<>>
       THEN LET node == to_node(g.builder[1]) IN
            IF Raises(node)
            THEN [g1 EXCEPT !.pc = "raised", !.err = node.raises]
            ELSE [g1 EXCEPT !.yielded = Append(@, node), !.pc = "yield"]
       ELSE IF g.builder # <<>>
       THEN [g1 EXCEPT !.builder = <<append(g.builder[1], line)>>]
       ELSE IF In(begin_string(language), line)
       THEN LET tokens == split(strip(line)) IN
            IF Len(tokens) > 2
            THEN [g1 EXCEPT !.builder =
                            <<SnippetNodeBuilder(tokens[3], language, lineno)>>]
            ELSE [g1 EXCEPT !.warned = Append(@,
                            [msg      |-> "Missing snippet name",
                             language |-> language.key,
                             lineno   |-> lineno,
                             line     |-> line])]
       ELSE g1

\* parse_line starting a snippet with an empty key at a begin marker that
\* has no name, instead of warning
parse_line_NamelessStarts(g, line, language) ==
    LET lineno == g.lineno + 1
        g1     == [g EXCEPT !.lineno = lineno]
    IN IF In(end_string(language), line) /\ g.builder # <<>>
       THEN LET node == to_node(g.builder[1]) IN
            IF Raises(node)
            THEN [g1 EXCEPT !.pc = "raised", !.err = node.raises]
            ELSE [g1 EXCEPT !.yielded = Append(@, node), !.pc = "yield"]
       ELSE IF ~In(ignore_string(language), line) /\ g.builder # <<>>
       THEN [g1 EXCEPT !.builder = <<append(g.builder[1], line)>>]
       ELSE IF In(begin_string(language), line)
       THEN LET tokens == split(strip(line)) IN
            [g1 EXCEPT !.builder =
                <<SnippetNodeBuilder(IF Len(tokens) > 2 THEN tokens[3] ELSE <<>>,
                                     language, lineno)>>]
       ELSE g1

\* parse_line taking a builder without lines for no builder in the first
\* two tests
parse_line_EmptyIsNone(g, line, language) ==
    LET lineno == g.lineno + 1
        g1     == [g EXCEPT !.lineno = lineno]
        live   == g.builder # <<>> /\ g.builder[1].lines # <<>>
    IN IF In(end_string(language), line) /\ live
       THEN LET node == to_node(g.builder[1]) IN
            IF Raises(node)
            THEN [g1 EXCEPT !.pc = "raised", !.err = node.raises]
            ELSE [g1 EXCEPT !.yielded = Append(@, node), !.pc = "yield"]
       ELSE IF ~In(ignore_string(language), line) /\ g.builder # <<>>
               /\ (live \/ ~In(end_string(language), line))
       THEN [g1 EXCEPT !.builder = <<append(g.builder[1], line)>>]
       ELSE IF In(begin_string(language), line)
       THEN LET tokens == split(strip(line)) IN
            IF Len(tokens) > 2
            THEN [g1 EXCEPT !.builder =
                            <<SnippetNodeBuilder(tokens[3], language, lineno)>>]
            ELSE [g1 EXCEPT !.warned = Append(@,
                            [msg      |-> "Missing snippet name",
                             language |-> language.key,
                             lineno   |-> lineno,
                             line     |-> line])]
       ELSE g1

\* parse_line keeping the line with the begin marker as the first line of
\* the snippet it starts
parse_line_KeepsBegin(g, line, language) ==
    LET lineno == g.lineno + 1
        g1     == [g EXCEPT !.lineno = lineno]
    IN IF In(end_string(language), line) /\ g.builder # <<>>
       THEN LET node == to_node(g.builder[1]) IN
            IF Raises(node)
            THEN [g1 EXCEPT !.pc = "raised", !.err = node.raises]
            ELSE [g1 EXCEPT !.yielded = Append(@, node), !.pc = "yield"]
       ELSE IF ~In(ignore_string(language), line) /\ g.builder # <<>>
       THEN [g1 EXCEPT !.builder = <<append(g.builder[1], line)>>]
       ELSE IF In(begin_string(language), line)
       THEN LET tokens == split(strip(line)) IN
            IF Len(tokens) > 2
            THEN [g1 EXCEPT !.builder =
                    <<append(SnippetNodeBuilder(tokens[3], language, lineno), line)>>]
            ELSE [g1 EXCEPT !.warned = Append(@,
                            [msg      |-> "Missing snippet name",
                             language |-> language.key,
                             lineno   |-> lineno,
                             line     |-> line])]
       ELSE g1

\* The generator run from the top of the for loop on the next line, up to
\* the yield statement (the node is handed out and builder is still set), to
\* the exception that to_node raises (nothing is handed out, the generator
\* is finished) or to the end of the iteration
parse_line(g, line, language) ==
    LET lineno == g.lineno + 1
        g1     == [g EXCEPT !.lineno = lineno]
    IN IF In(end_string(language), line) /\ g.builder # <<>>
       THEN LET node == to_node(g.builder[1]) IN
            IF Raises(node)
            THEN [g1 EXCEPT !.pc = "raised", !.err = node.raises]
            ELSE [g1 EXCEPT !.yielded = Append(@, node), !.pc = "yield"]
       ELSE IF ~In(ignore_string(language), line) /\ g.builder # <<>>
       THEN [g1 EXCEPT !.builder = <<append(g.builder[1], line)>>]
       ELSE IF In(begin_string(language), line)
       THEN LET tokens == split(strip(line)) IN
            IF Len(tokens) > 2
            THEN [g1 EXCEPT !.builder =
                            <<SnippetNodeBuilder(tokens[3], language, lineno)>>]
            ELSE [g1 EXCEPT !.warned = Append(@,
                            [msg      |-> "Missing snippet name",
                             language |-> language.key,
                             lineno   |-> lineno,
                             line     |-> line])]
       ELSE g1

\* The generator resumed at the yield statement: builder = None, back to the
\* top of the loop
resume(g) == [g EXCEPT !.builder = <<>>, !.pc = "loop"]

\* One whole iteration of the for loop, the consumer resuming the generator
\* when it yields; a generator that an exception has left reads no line
parse_iteration(g, line, language) ==
    IF g.pc = "raised" THEN g
    ELSE LET h == parse_line(g, line, language)
         IN IF h.pc = "yield" THEN resume(h) ELSE h

\* The generator run on code_file as list.extend runs it: to exhaustion, or
\* to the exception that leaves it
RECURSIVE ParseFrom(_, _, _)
ParseFrom(g, lines, language) ==
    IF lines = <<>> THEN g
    ELSE ParseFrom(parse_iteration(g, Head(lines), language), Tail(lines), language)

parse(lines, language) == ParseFrom(ParseStart, lines, language)

----------------------------------------------------------------------------
(* Inputs: language configurations, snippet keys, lines of code files *)

GoConfig ==
    [key |-> "go", name |-> "Go", highlight |-> "go",
     line_comment |-> <<"/", "/">>,
     gh_repository |-> <<"acme/sdk-go">>, gh_branch |-> <<"master">>,
     gh_path |-> <<"examples/snippets.go">>]

PyConfig ==
    [key |-> "py", name |-> "Python", highlight |-> "python",
     line_comment |-> <<"#">>,
     gh_repository |-> <<"acme/sdk-py">>, gh_branch |-> <<"master">>,
     gh_path |-> <<"examples/snippets.py">>]

\* no remote source
RsConfig ==
    [key |-> "rs", name |-> "Rust", highlight |-> "rust",
     line_comment |-> <<"/", "/">>]

\* a second entry for the key "go", with two of the three remote fields
GoPartialConfig ==
    [key |-> "go", name |-> "Golang", highlight |-> "golang",
     line_comment |-> <<"/", "/">>,
     gh_repository |-> <<"acme/sdk-go">>, gh_branch |-> <<"master">>]

ConfigPool == {GoConfig, PyConfig, RsConfig, GoPartialConfig}

K1 == <<"k", "1">>
K2 == <<"k", "2">>
Keys == {K1, K2}

Docs == {"d1", "d2"}

Indent4 == <<SP, SP, SP, SP>>

BeginLine(c, key) == c \o <<SP>> \o snippet_start \o <<SP>> \o key \o <<NL>>
\* a begin line of a file with CRLF line ends
BeginCrLine(c, key) == c \o <<SP>> \o snippet_start \o <<SP>> \o key \o <<CR, NL>>
BeginNoNameLine(c) == c \o <<SP>> \o snippet_start \o <<NL>>
BeginMidLine(c, key) ==
    <<"a", SP, "b", SP>> \o c \o <<SP>> \o snippet_start \o <<SP>> \o key \o <<NL>>
EndLine(c) == Indent4 \o c \o <<SP>> \o snippet_end \o <<NL>>
IgnoreLine(c) == Indent4 \o <<"x", SP>> \o c \o <<SP>> \o snippet_ignore \o <<NL>>
IgnoreEndLine(c) ==
    c \o <<SP>> \o snippet_ignore \o <<SP>> \o c \o <<SP>> \o snippet_end \o <<NL>>
IgnoreBeginLine(c, key) ==
    c \o <<SP>> \o snippet_start \o <<SP>> \o key \o <<SP>>
      \o c \o <<SP>> \o snippet_ignore \o <<NL>>
Content4Line == Indent4 \o <<"a", NL>>
\* a line of a file with CRLF line ends, with a lone CR before a tab
ContentCrLine == <<"a", CR, TAB, "b", CR, NL>>
ContentTabLine == <<TAB, "b", SP, NL>>
\* a line of a UTF-8 file: "cafe" with an acute accent, bytes 0xC3 0xA9
ContentUtf8Line == Indent4 \o <<"c", "a", "f", "Ã", "©", NL>>
BlankLine == <<NL>>

\* The lines a code file of the language is made of
LinePool(language) ==
    LET c == language.line_comment IN
    {BeginLine(c, K1), BeginCrLine(c, K2), BeginNoNameLine(c), BeginMidLine(c, K2),
     EndLine(c), IgnoreLine(c), IgnoreEndLine(c), IgnoreBeginLine(c, K2),
     Content4Line, ContentTabLine, ContentCrLine, ContentUtf8Line, BlankLine}

----------------------------------------------------------------------------
(* The generator SnippetNodeBuilder.parse run on its own, line by line *)

HostIdle ==
    /\ phase = "start"
    /\ build = 1
    /\ snippet_language_list = <<>>
    /\ doctree = [d \in Docs |-> <<>>]
    /\ warnings = <<>>
    /\ err = <<>>
    /\ urlopen_calls = <<>>
    /\ env_updated = 0
    /\ snippet_all = <<>>
    /\ snippet_display = <<>>
    /\ snippet_languages = [keys |-> <<>>, vals |-> <<>>]
    /\ snippet_pulled = FALSE

InitParse ==
    /\ HostIdle
    /\ parse_language \in {Language(GoConfig), Language(PyConfig)}
    /\ code_file = <<>>
    /\ gen = ParseStart
    /\ parse_done = FALSE

\* next(code_file) returns a line: the loop runs on it up to the yield
\* statement, to the end of the iteration, or to an exception, which ends
\* the generator
ParseNext ==
    /\ ~parse_done
    /\ gen.pc = "loop"
    /\ Len(code_file) < MaxLines
    /\ \E line \in LinePool(parse_language) :
          /\ code_file' = Append(code_file, line)
          /\ gen' = parse_line(gen, line, parse_language)
    /\ parse_done' = (gen'.pc = "raised")
    /\ UNCHANGED <<parse_language, hostVars, envVars>>

\* the consumer (list.extend) asks for the next node: the generator goes on
\* after the yield statement
ParseResume ==
    /\ ~parse_done
    /\ gen.pc = "yield"
    /\ gen' = resume(gen)
    /\ UNCHANGED <<parse_language, code_file, parse_done, hostVars, envVars>>

\* the generator yielding the snippet still open when the file ends
ParseStop_Flush ==
    /\ ~parse_done
    /\ gen.pc = "loop"
    /\ parse_done' = TRUE
    /\ gen' = IF gen.builder # <<>> /\ ~Raises(to_node(gen.builder[1]))
              THEN [gen EXCEPT !.yielded = Append(@, to_node(gen.builder[1])),
                               !.builder = <<>>]
              ELSE gen
    /\ UNCHANGED <<parse_language, code_file, hostVars, envVars>>

\* next(code_file) raises StopIteration (or the connection fails): the
\* generator ends
ParseStop ==
    /\ ~parse_done
    /\ gen.pc = "loop"
    /\ parse_done' = TRUE
    /\ UNCHANGED <<parse_language, code_file, gen, hostVars, envVars>>

NextParse == ParseNext \/ ParseResume \/ ParseStop

SpecParse == InitParse /\ [][NextParse]_vars

----------------------------------------------------------------------------
(* The build: the callbacks connected in setup, fired in Sphinx's order    *)
(*   builder-inited, directives while documents are read, env-updated,     *)
(*   doctree-resolved per document.                                        *)
(* An exception leaving a callback aborts the build (err).                 *)

\* arguments of the snippet directives
InlineKeys == {K1}
LangIds == {"go", "py"}

\* content of a snippet directive: one line, with trailing whitespace
InlineContent == << <<"x", SP>> >>

\* the code file of a remote source: a snippet k2 without content, a begin
\* marker without a name, a snippet k1 with an indented line
RemoteFile(c) == <<BeginLine(c, K2), EndLine(c), BeginNoNameLine(c),
                   BeginLine(c, K1), ContentTabLine, EndLine(c)>>

\* the code file of a remote source saved as UTF-8: a snippet k2 without
\* content, a snippet k1 whose line holds bytes above 0x7F
RemoteFileUtf8(c) == <<BeginLine(c, K2), EndLine(c),
                       BeginLine(c, K1), ContentUtf8Line, EndLine(c)>>

\* the number of lines a connection delivers before it is reset
ResetAfter == 3

\* what urllib2.urlopen(raw_url) does: it returns the file, or raises
\* HTTPError (a URLError with code and reason), or a plain URLError
\* (reason only, e.g. the host is unreachable), or an exception that is no
\* URLError (socket.timeout); or it returns a response that delivers the
\* first lines of the file and then fails (socket.error).
\* lines are the lines the response delivers; the file it returns is plain
\* ASCII or holds UTF-8 text.
Responses(language) ==
    { [kind |-> "HTTPError", lines |-> <<>>],
      [kind |-> "URLError",  lines |-> <<>>],
      [kind |-> "timeout",   lines |-> <<>>],
      [kind |-> "reset",
       lines |-> SubSeq(RemoteFile(language.line_comment), 1, ResetAfter)],
      [kind |-> "ok", lines |-> RemoteFile(language.line_comment)],
      [kind |-> "ok", lines |-> RemoteFileUtf8(language.line_comment)] }

\* one outcome of urlopen for every language that is asked for its file
UrlopenOutcomes(languages) ==
    LET all == UNION { Responses(languages[k]) : k \in DOMAIN languages }
                \cup { [kind |-> "unused", lines |-> <<>>] }
    IN { f \in [DOMAIN languages -> all] :
           \A k \in DOMAIN languages :
              IF languages[k].has_remote_source
              THEN f[k] \in Responses(languages[k])
              ELSE f[k].kind = "unused" }

SeqsUpTo(S, n) == UNION { [1..m -> S] : m \in 0..n }

Range(f) == { f[i] : i \in DOMAIN f }

\* the orders in which a dict with these keys may iterate
DictOrders(ks) ==
    { o \in [1..Cardinality(ks) -> ks] : Range(o) = ks }

EmptyDict == [keys |-> <<>>, vals |-> <<>>]

\* setup: app.add_config_value('snippet_language_list', [], 'env') makes the
\* setting an attribute of env.config whether or not conf.py sets it
ConfigRegistered == TRUE
ConfigDefault == <<>>

config_snippet_language_list ==
    IF snippet_language_list = <<>> THEN ConfigDefault ELSE snippet_language_list[1]

Init ==
    /\ phase = "start"
    /\ build = 1
    /\ snippet_language_list \in
          {<<>>} \cup { <<l>> : l \in SeqsUpTo(ConfigPool, MaxLangs) }
    /\ doctree = [d \in Docs |-> <<>>]
    /\ warnings = <<>>
    /\ err = <<>>
    /\ urlopen_calls = <<>>
    /\ env_updated = 0
    /\ snippet_all = <<>>
    /\ snippet_display = <<>>
    /\ snippet_languages = EmptyDict
    /\ snippet_pulled = FALSE
    /\ parse_language = Language(GoConfig)
    /\ code_file = <<>>
    /\ gen = ParseStart
    /\ parse_done = TRUE

\* initialize(app), on builder-inited
Initialize ==
    /\ phase = "start"
    /\ err = <<>>
    /\ snippet_all' = <<>>
    /\ snippet_display' = <<>>
    /\ IF ConfigRegistered
       THEN LET list == config_snippet_language_list
                ks   == { list[i].key : i \in 1..Len(list) }
                last(k) == CHOOSE i \in 1..Len(list) :
                              /\ list[i].key = k
                              /\ \A j \in (i + 1)..Len(list) : list[j].key # k
            IN /\ \E o \in DictOrders(ks) :
                    snippet_languages' =
                        [keys |-> o, vals |-> [k \in ks |-> Language(list[last(k)])]]
               /\ phase' = "read"
               /\ err' = err
       ELSE /\ snippet_languages' = EmptyDict
            /\ err' = <<"SphinxError", "builder-inited", "">>
            /\ phase' = phase
    /\ UNCHANGED <<build, snippet_language_list, doctree, warnings, urlopen_calls,
                   env_updated, snippet_pulled, parseVars>>

\* CodeSnippet.run with a language made up for an id that is not configured
CodeSnippetRun_AnyLanguage(key, lang_id) ==
    /\ phase = "read"
    /\ err = <<>>
    /\ Len(snippet_all) < MaxInline
    /\ LET language ==
               IF lang_id \in DOMAIN snippet_languages.vals
               THEN snippet_languages.vals[lang_id]
               ELSE Language([key |-> lang_id, name |-> lang_id, highlight |-> lang_id,
                              line_comment |-> <<"#">>])
           node == SingleSnippetNode(key, language, UnicodeList(InlineContent), 0)
       IN snippet_all' = Append(snippet_all, node)
    /\ UNCHANGED <<phase, build, snippet_language_list, doctree, warnings, err,
                   urlopen_calls, env_updated,
                   snippet_display, snippet_languages, snippet_pulled, parseVars>>

\* CodeSnippet.run, for a snippet directive with arguments key, lang_id
CodeSnippetRun(key, lang_id) ==
    /\ phase = "read"
    /\ err = <<>>
    /\ Len(snippet_all) < MaxInline
    /\ IF lang_id \in DOMAIN snippet_languages.vals
       THEN LET language == snippet_languages.vals[lang_id]
                node == SingleSnippetNode(key, language, UnicodeList(InlineContent), 0)
            IN /\ snippet_all' = Append(snippet_all, node)
               /\ err' = err
       ELSE /\ err' = <<"KeyError", "snippet", "">>
            /\ snippet_all' = snippet_all
    /\ UNCHANGED <<phase, build, snippet_language_list, doctree, warnings,
                   urlopen_calls, env_updated,
                   snippet_display, snippet_languages, snippet_pulled, parseVars>>

\* SnippetDisplay.run, for a snippet-display directive in document docname.
\* children is the node's child list; passes counts the times the resolver
\* finished with the node.
SnippetDisplayRun(docname, key) ==
    /\ phase = "read"
    /\ err = <<>>
    /\ Len(snippet_display) < MaxDisplay
    /\ LET node == [key |-> key, children |-> <<>>, passes |-> 0]
       IN /\ snippet_display' = Append(snippet_display, [docname |-> docname, key |-> key])
          /\ doctree' = [doctree EXCEPT ![docname] = Append(@, node)]
    /\ UNCHANGED <<phase, build, snippet_language_list, warnings, err,
                   urlopen_calls, env_updated,
                   snippet_all, snippet_languages, snippet_pulled, parseVars>>

\* pull_single_language assigning the extracted snippets to env.snippet_all
\* instead of extending it
pull_single_language_Assign(st, language, response) ==
    LET raw_url == get_raw_url(language) IN
    IF raw_url = None THEN st
    ELSE LET called == [st EXCEPT !.calls = Append(@,
                           [language |-> language.key, url |-> raw_url,
                            response |-> response])]
         IN IF response.kind = "HTTPError"
            THEN [called EXCEPT !.warnings = Append(@,
                     [msg |-> "Failed to get remote snippets",
                      language |-> language.key])]
            ELSE IF response.kind = "URLError"
            THEN [called EXCEPT !.err = "AttributeError"]
            ELSE IF response.kind = "timeout"
            THEN [called EXCEPT !.err = "timeout"]
            ELSE LET g == parse(response.lines, language)
                 IN [called EXCEPT !.snippet_all = g.yielded,
                                   !.warnings = @ \o g.warned,
                                   !.err = IF g.err # "" THEN g.err
                                           ELSE IF response.kind = "reset"
                                           THEN "error" ELSE @]

\* pull_single_language(app, env, language), urlopen answering with response.
\* st holds what the call reads and writes: snippet_all, warnings, the urlopen
\* calls made and the exception raised.
pull_single_language(st, language, response) ==
    LET raw_url == get_raw_url(language) IN
    IF raw_url = None THEN st
    ELSE LET called == [st EXCEPT !.calls = Append(@,
                           [language |-> language.key, url |-> raw_url,
                            response |-> response])]
         IN IF response.kind = "HTTPError"
            THEN [called EXCEPT !.warnings = Append(@,
                     [msg |-> "Failed to get remote snippets",
                      language |-> language.key])]
            ELSE IF response.kind = "URLError"
            \* the handler reads e.code, which a plain URLError does not have
            THEN [called EXCEPT !.err = "AttributeError"]
            ELSE IF response.kind = "timeout"
            \* not a URLError: the except clause does not catch it
            THEN [called EXCEPT !.err = "timeout"]
            \* list.extend appends the nodes as the generator yields them; an
            \* exception of to_node or an error of the response ends the
            \* generator and leaves extend
            ELSE LET g == parse(response.lines, language)
                 IN [called EXCEPT !.snippet_all = @ \o g.yielded,
                                   !.warnings = @ \o g.warned,
                                   !.err = IF g.err # "" THEN g.err
                                           ELSE IF response.kind = "reset"
                                           THEN "error" ELSE @]

\* the loop of pull_snippet_content over env.snippet_languages.itervalues()
RECURSIVE PullLanguages(_, _, _, _)
PullLanguages(st, languages, order, responses) ==
    IF order = <<>> \/ st.err # "" THEN st
    ELSE PullLanguages(
             pull_single_language(st, languages[Head(order)], responses[Head(order)]),
             languages, Tail(order), responses)

\* the cache test always failing
SnippetsCached_Never == FALSE

\* hasattr(env, 'snippet_pulled') and env.snippet_pulled
\* (snippet_pulled = FALSE stands for the attribute not being set)
SnippetsCached == snippet_pulled

\* pull_snippet_content(app, env), on env-updated
PullSnippetContent ==
    /\ phase \in {"read", "updated"}
    /\ err = <<>>
    /\ env_updated < MaxPulls
    /\ env_updated' = env_updated + 1
    /\ phase' = "updated"
    /\ IF SnippetsCached
       THEN UNCHANGED <<snippet_all, warnings, urlopen_calls, err, snippet_pulled>>
       ELSE \E responses \in UrlopenOutcomes(snippet_languages.vals) :
              LET st == PullLanguages(
                            [snippet_all |-> snippet_all, warnings |-> warnings,
                             calls |-> urlopen_calls, err |-> ""],
                            snippet_languages.vals, snippet_languages.keys, responses)
              IN /\ snippet_all' = st.snippet_all
                 /\ warnings' = st.warnings
                 /\ urlopen_calls' = st.calls
                 /\ err' = IF st.err = "" THEN <<>>
                           ELSE <<st.err, "env-updated", "">>
                 /\ snippet_pulled' = (st.err = "")
    /\ UNCHANGED <<build, snippet_language_list, doctree,
                   snippet_display, snippet_languages, parseVars>>

\* list.remove(x) removing nothing
Remove_Nothing(list, x) == list

\* list.remove(x) on a list that holds x
Remove(list, x) ==
    LET i == CHOOSE j \in 1..Len(list) :
                 list[j] = x /\ \A h \in 1..(j - 1) : list[h] # x
    IN SubSeq(list, 1, i - 1) \o SubSeq(list, i + 1, Len(list))

\* the inner loop of resolve_snippets for one SnippetDisplayNode:
\* r holds the node's children, missing_languages and the exception raised
RECURSIVE ScanSnippets(_, _, _)
ScanSnippets(r, key, snippets) ==
    IF snippets = <<>> \/ r.err # "" THEN r
    ELSE LET snippet == Head(snippets) IN
         IF snippet.key # key
         THEN ScanSnippets(r, key, Tail(snippets))
         ELSE IF snippet.language \notin Range(r.missing)
         \* list.remove(x): x not in list
         THEN [r EXCEPT !.err = "ValueError"]
         ELSE ScanSnippets([r EXCEPT !.missing = Remove(@, snippet.language),
                                     !.children = Append(@, snippet)],
                           key, Tail(snippets))

\* the loop of resolve_snippets over doctree.traverse(SnippetDisplayNode),
\* from the i-th node on; t holds the tree, the warnings and the exception
RECURSIVE ResolveNodes(_, _, _, _, _)
ResolveNodes(t, i, langs, snippets, docname) ==
    IF i > Len(t.tree) \/ t.err # "" THEN t
    ELSE LET node == t.tree[i]
             r == ScanSnippets([children |-> node.children, missing |-> langs,
                                err |-> ""], node.key, snippets)
             appended == [node EXCEPT !.children = r.children]
         IN IF r.err # ""
            THEN [t EXCEPT !.tree[i] = appended, !.err = r.err]
            ELSE ResolveNodes(
                     [t EXCEPT !.tree[i] = [appended EXCEPT !.passes = @ + 1],
                               !.warnings =
                                   IF Len(r.missing) > 0
                                   THEN Append(@, [msg |-> "Missing languages",
                                                   key |-> node.key,
                                                   missing |-> r.missing,
                                                   docname |-> docname])
                                   ELSE @],
                     i + 1, langs, snippets, docname)

\* resolve_snippets walking the placeholders of every document (those of
\* env.snippet_display) instead of those of the tree it is given
ResolveSnippets_EveryTree(docname) ==
    /\ phase \in {"updated", "write"}
    /\ err = <<>>
    /\ \A i \in DOMAIN doctree[docname] : doctree[docname][i].passes < MaxResolve
    /\ phase' = "write"
    /\ LET t1 == ResolveNodes([tree |-> doctree["d1"], warnings |-> warnings,
                               err |-> ""],
                              1, snippet_languages.keys, snippet_all, "d1")
           t2 == ResolveNodes([tree |-> doctree["d2"], warnings |-> t1.warnings,
                               err |-> t1.err],
                              1, snippet_languages.keys, snippet_all, "d2")
       IN /\ doctree' = [d \in Docs |-> IF d = "d1" THEN t1.tree ELSE t2.tree]
          /\ warnings' = t2.warnings
          /\ err' = IF t2.err = "" THEN <<>>
                    ELSE <<t2.err, "doctree-resolved", docname>>
    /\ UNCHANGED <<build, snippet_language_list, urlopen_calls, env_updated,
                   envVars, parseVars>>

\* resolve_snippets(app, doctree, docname), on doctree-resolved
ResolveSnippets(docname) ==
    /\ phase \in {"updated", "write"}
    /\ err = <<>>
    /\ \A i \in DOMAIN doctree[docname] : doctree[docname][i].passes < MaxResolve
    /\ phase' = "write"
    /\ LET t == ResolveNodes([tree |-> doctree[docname], warnings |-> warnings,
                              err |-> ""],
                             1, snippet_languages.keys, snippet_all, docname)
       IN /\ doctree' = [doctree EXCEPT ![docname] = t.tree]
          /\ warnings' = t.warnings
          /\ err' = IF t.err = "" THEN <<>>
                    ELSE <<t.err, "doctree-resolved", docname>>
    /\ UNCHANGED <<build, snippet_language_list, urlopen_calls, env_updated,
                   envVars, parseVars>>

\* Sphinx pickles the environment at the end of a build and loads it for the
\* next one: the env attributes persist, the documents are read again
NewBuild ==
    /\ phase \in {"updated", "write"}
    /\ err = <<>>
    /\ build < MaxBuilds
    /\ build' = build + 1
    /\ phase' = "start"
    /\ doctree' = [d \in Docs |-> <<>>]
    /\ warnings' = <<>>
    /\ urlopen_calls' = <<>>
    /\ env_updated' = 0
    /\ UNCHANGED <<snippet_language_list, err, envVars, parseVars>>

Next ==
    \/ Initialize
    \/ \E key \in InlineKeys, lang_id \in LangIds : CodeSnippetRun(key, lang_id)
    \/ \E docname \in Docs, key \in Keys : SnippetDisplayRun(docname, key)
    \/ PullSnippetContent
    \/ \E docname \in Docs : ResolveSnippets(docname)
    \/ NewBuild

Spec == Init /\ [][Next]_vars

----------------------------------------------------------------------------
(* Notions the properties are stated with *)

Languages == snippet_languages.vals
LanguageKeys == DOMAIN snippet_languages.vals
RemoteKeys == { k \in LanguageKeys : Languages[k].has_remote_source }

\* a snippet extracted from a remote file carries the url of its origin
IsRemote(node) == "source_url" \in DOMAIN node

\* the snippets of the store with this key, in store order
Matching(key) == SelectSeq(snippet_all, LAMBDA s : s.key = key)

\* the remote snippets of the store of this language, in store order
RemoteOf(k) == SelectSeq(snippet_all, LAMBDA s : IsRemote(s) /\ s.language = k)

\* the urlopen calls of this build for the language
CallsOf(k) == { i \in DOMAIN urlopen_calls : urlopen_calls[i].language = k }

\* the build has passed builder-inited without an exception
Initialized == phase \in {"read", "updated", "write"}

\* the build is past the fetch step
Pulled == phase \in {"updated", "write"}

Failed(callback) == err # <<>> /\ err[2] = callback

AtMostOne(S) == \A x, y \in S : x = y

PlaceholderIds == { <<d, i>> : d \in Docs, i \in 1..(MaxDisplay + 1) }
Exists(id) == id[2] \in DOMAIN doctree[id[1]]
Placeholder(id) == doctree[id[1]][id[2]]

----------------------------------------------------------------------------
(* C1: within a build every language's remote source is requested at most  *)
(* once, what the store holds of a language's remote snippets is what the  *)
(* one answer to that request yielded, and a firing of env-updated while   *)
(* snippet_pulled is set makes no request and leaves snippet_all unchanged *)

C1_RequestedOnce ==
    Initialized =>
        \A k \in LanguageKeys :
            /\ AtMostOne(CallsOf(k))
            /\ RemoteOf(k) =
                  IF CallsOf(k) # {}
                  THEN LET i == CHOOSE j \in CallsOf(k) : TRUE
                       IN parse(urlopen_calls[i].response.lines, Languages[k]).yielded
                  ELSE <<>>

C1_CachedPullDoesNothing ==
    (env_updated' = env_updated + 1 /\ snippet_pulled)
        => (snippet_all' = snippet_all /\ urlopen_calls' = urlopen_calls)

C1_FetchAtMostOnce == []C1_RequestedOnce /\ [][C1_CachedPullDoesNothing]_vars

\* env-updated fired twice after a fetch that brought snippets into the store
C1_Witness ==
    /\ env_updated = 2
    /\ snippet_pulled
    /\ build = 1
    /\ \E k \in RemoteKeys : CallsOf(k) # {} /\ RemoteOf(k) # <<>>

----------------------------------------------------------------------------
(* C2: only a missing language configuration is fatal: after initialize    *)
(* has succeeded no callback raises (stated as in the claim; does not hold)*)

C2_OnlyConfigurationFatal ==
    err # <<>> => err[1] = "SphinxError"

----------------------------------------------------------------------------
(* Resolution of a document *)

\* resolve_snippets has run on the tree of document d
Processed(d) ==
    /\ doctree[d] # <<>>
    /\ \/ doctree[d][1].passes >= 1
       \/ (Failed("doctree-resolved") /\ err[3] = d)

\* ... and has run once only
ProcessedOnce(d) ==
    /\ Processed(d)
    /\ \A i \in DOMAIN doctree[d] : doctree[d][i].passes <= 1

(* C3: after resolve_snippets has processed a document, the children of    *)
(* every placeholder in it are exactly the snippets of the store with the  *)
(* placeholder's key, in store order (stated as in the claim; does not     *)
(* hold)                                                                   *)

C3_ResolvedIsMatching ==
    \A d \in Docs :
        ProcessedOnce(d) =>
            \A i \in DOMAIN doctree[d] :
                doctree[d][i].children = Matching(doctree[d][i].key)

----------------------------------------------------------------------------
(* C4: for every placeholder the resolver has finished with, a             *)
(* missing-languages warning was emitted for it if and only if some        *)
(* configured language has no snippet with the placeholder's key, and the  *)
(* warning lists exactly those languages with the placeholder's key        *)

MissingFor(key) ==
    LanguageKeys \ { snippet_all[i].language :
                       i \in { j \in DOMAIN snippet_all : snippet_all[j].key = key } }

\* the missing-languages warnings attributed to document d for key
MissingWarnings(d, key) ==
    { i \in DOMAIN warnings :
        /\ warnings[i].msg = "Missing languages"
        /\ warnings[i].docname = d
        /\ warnings[i].key = key }

\* the completed passes of the resolver over the placeholders of d with key
CompletedPasses(d, key) ==
    { <<i, n>> \in (DOMAIN doctree[d]) \X (1..(MaxResolve + 1)) :
        doctree[d][i].key = key /\ n <= doctree[d][i].passes }

C4_MissingLanguagesWarning ==
    \A d \in Docs : \A i \in DOMAIN doctree[d] :
        LET node == doctree[d][i] IN
        node.passes >= 1 =>
            /\ Cardinality(MissingWarnings(d, node.key)) =
                  IF MissingFor(node.key) # {}
                  THEN Cardinality(CompletedPasses(d, node.key))
                  ELSE 0
            /\ \A w \in MissingWarnings(d, node.key) :
                  /\ Range(warnings[w].missing) = MissingFor(node.key)
                  /\ Len(warnings[w].missing) = Cardinality(MissingFor(node.key))

\* a placeholder resolved with one snippet and one language missing
C4_Witness ==
    \E d \in Docs : \E i \in DOMAIN doctree[d] :
        LET node == doctree[d][i] IN
        /\ node.passes = 1
        /\ Len(node.children) = 1
        /\ Cardinality(LanguageKeys) = 2
        /\ Cardinality(MissingFor(node.key)) = 1
        /\ Cardinality(MissingWarnings(d, node.key)) = 1

\* a placeholder resolved with every language present and no warning
C4_WitnessComplete ==
    \E d \in Docs : \E i \in DOMAIN doctree[d] :
        LET node == doctree[d][i] IN
        /\ node.passes = 1
        /\ Len(node.children) = 2
        /\ MissingFor(node.key) = {}
        /\ MissingWarnings(d, node.key) = {}

----------------------------------------------------------------------------
(* C5: in a placeholder's resolved collection inline snippets come before  *)
(* remote ones, and remote snippets of different languages come in the     *)
(* order of the entries of snippet_language_list (stated as in the claim;  *)
(* does not hold)                                                          *)

\* position in snippet_language_list of the entry that defines language k
ConfigIndex(k) ==
    LET list == config_snippet_language_list IN
    CHOOSE i \in 1..Len(list) :
        list[i].key = k /\ \A j \in (i + 1)..Len(list) : list[j].key # k

C5_ConfigurationOrder ==
    \A d \in Docs :
        ProcessedOnce(d) =>
            \A n \in DOMAIN doctree[d] :
                LET c == doctree[d][n].children IN
                \A i, j \in DOMAIN c :
                    i < j =>
                        /\ ~(IsRemote(c[i]) /\ ~IsRemote(c[j]))
                        /\ (IsRemote(c[i]) /\ IsRemote(c[j])
                               /\ c[i].language # c[j].language)
                           => ConfigIndex(c[i].language) < ConfigIndex(c[j].language)

----------------------------------------------------------------------------
(* C6: in every build the first firing of env-updated requests the file of *)
(* every language with a remote source, so that past the fetch step the    *)
(* store holds the snippets of every language whose request succeeded      *)
(* (stated as in the claim; does not hold)                                 *)

C6_FetchedInEveryBuild ==
    (Pulled /\ ~Failed("env-updated")) =>
        \A k \in RemoteKeys :
            /\ CallsOf(k) # {}
            /\ \A i \in CallsOf(k) :
                  urlopen_calls[i].response.kind = "ok" =>
                      RemoteOf(k) =
                          parse(urlopen_calls[i].response.lines, Languages[k]).yielded

----------------------------------------------------------------------------
(* C8: a transport failure for one language is not fatal: a warning names  *)
(* the language, the other languages with a remote source are still        *)
(* requested, and snippet_pulled is set afterwards (stated as in the       *)
(* claim; does not hold)                                                   *)

FetchWarnings(k) ==
    { i \in DOMAIN warnings :
        /\ warnings[i].msg = "Failed to get remote snippets"
        /\ warnings[i].language = k }

C8_FetchFailureNotFatal ==
    \A i \in DOMAIN urlopen_calls :
        urlopen_calls[i].response.kind # "ok" =>
            /\ ~Failed("env-updated")
            /\ FetchWarnings(urlopen_calls[i].language) # {}
            /\ RemoteOf(urlopen_calls[i].language) = <<>>
            /\ \A k \in RemoteKeys : CallsOf(k) # {}
            /\ snippet_pulled

----------------------------------------------------------------------------
(* C9: once the resolver has finished with a placeholder, no later event   *)
(* of the build changes its children (stated as in the claim; does not     *)
(* hold)                                                                   *)

SameTrees == build' = build

C9_ResolvedIsTerminal ==
    [][ SameTrees =>
          \A id \in PlaceholderIds :
              (Exists(id) /\ Placeholder(id).passes >= 1) =>
                  doctree'[id[1]][id[2]].children = Placeholder(id).children ]_vars

(* C9, amended: the children of a placeholder are changed by nothing but a *)
(* run of resolve_snippets on the placeholder's own document, and a run    *)
(* only appends to them                                                    *)

IsPrefix(s, t) == Len(s) <= Len(t) /\ SubSeq(t, 1, Len(s)) = s

\* the step is a run of resolve_snippets on document d
ResolveStep(d) ==
    /\ phase' = "write"
    /\ \A e \in Docs \ {d} : doctree'[e] = doctree[e]
    /\ \/ \E i \in DOMAIN doctree[d] : doctree'[d][i].passes = doctree[d][i].passes + 1
       \/ (err = <<>> /\ err' # <<>> /\ err'[2] = "doctree-resolved" /\ err'[3] = d)

C9_ChangedByOwnResolutionOnly ==
    [][ SameTrees =>
          \A id \in PlaceholderIds :
              Exists(id) =>
                  /\ id[2] \in DOMAIN doctree'[id[1]]
                  /\ doctree'[id[1]][id[2]].key = Placeholder(id).key
                  /\ IsPrefix(Placeholder(id).children, doctree'[id[1]][id[2]].children)
                  /\ doctree'[id[1]][id[2]].children # Placeholder(id).children
                       => ResolveStep(id[1]) ]_vars

\* two documents with a placeholder each, one resolved and one not
C9_Witness ==
    /\ doctree["d1"] # <<>> /\ doctree["d2"] # <<>>
    /\ doctree["d1"][1].passes = 1 /\ doctree["d1"][1].children # <<>>
    /\ doctree["d2"][1].passes = 0 /\ doctree["d2"][1].children = <<>>
    /\ doctree["d2"][1].key = doctree["d1"][1].key

----------------------------------------------------------------------------
(* C10: the language of every snippet of the store is a key of the         *)
(* languages mapping                                                       *)

C10_SnippetLanguageConfigured ==
    /\ \A i \in DOMAIN snippet_all : snippet_all[i].language \in LanguageKeys
    /\ Range(snippet_languages.keys) = LanguageKeys

\* the store holds an inline and a remote snippet
C10_Witness ==
    /\ \E i \in DOMAIN snippet_all : IsRemote(snippet_all[i])
    /\ \E i \in DOMAIN snippet_all : ~IsRemote(snippet_all[i])
    /\ Cardinality(LanguageKeys) = 2

----------------------------------------------------------------------------
(* Properties of SnippetNodeBuilder.parse, over the lines read so far *)

\* the generator's frame before the i-th line is read
Before(i) == parse(SubSeq(code_file, 1, i - 1), parse_language)

\* the generator's frames: the i-th is the frame before the i-th line is
\* read, the last the frame after the last line
RECURSIVE FramesFrom(_, _, _)
FramesFrom(g, lines, language) ==
    IF lines = <<>> THEN <<g>>
    ELSE <<g>> \o FramesFrom(parse_iteration(g, Head(lines), language),
                            Tail(lines), language)

Frames == FramesFrom(ParseStart, code_file, parse_language)

\* the snippet being collected after the lines read so far: the builder,
\* unless the generator is suspended at the yield of its node
Open == IF gen.pc = "yield" THEN <<>> ELSE gen.builder

\* a snippet is being collected when the i-th line is read
Collecting(i) == Before(i).builder # <<>>

HasEnd(i)    == In(end_string(parse_language), code_file[i])
HasIgnore(i) == In(ignore_string(parse_language), code_file[i])
HasBegin(i)  == In(begin_string(parse_language), code_file[i])

\* the generator's frame had the i-th line not been in the file (the lines
\* after it keeping their numbers)
WithoutLine(i) ==
    ParseFrom([Before(i) EXCEPT !.lineno = @ + 1],
              SubSeq(code_file, i + 1, Len(code_file)), parse_language)

\* the snippet collected when the i-th line is read is yielded with the same
\* key, origin and body with the line as without it
EnclosingKept(i) ==
    LET n == Len(Before(i).yielded) + 1
        a == gen.yielded
        b == WithoutLine(i).yielded
    IN /\ Len(a) >= n <=> Len(b) >= n
       /\ Len(a) >= n => a[n] = b[n]
       /\ Len(a) < n => Open = WithoutLine(i).builder

(* C7: a line with the ignore marker read while a snippet is collected     *)
(* leaves the enclosing snippet as if the line were absent, whatever else  *)
(* the line contains (stated as in the claim; does not hold)               *)

C7_IgnoreLineAbsent ==
    \A i \in DOMAIN code_file :
        (HasIgnore(i) /\ Collecting(i)) => EnclosingKept(i)

(* C7, amended: a line with the ignore marker and without the end marker   *)
(* and the begin marker, read while a snippet is collected, leaves the     *)
(* enclosing snippet as if the line were absent                            *)

C7_PureIgnoreLineAbsent ==
    \A i \in DOMAIN code_file :
        (HasIgnore(i) /\ ~HasEnd(i) /\ ~HasBegin(i) /\ Collecting(i))
            => EnclosingKept(i)

\* a snippet with a content line and an ignore line has been yielded
C7_Witness ==
    \E i \in DOMAIN code_file :
        /\ HasIgnore(i) /\ ~HasEnd(i) /\ ~HasBegin(i) /\ Collecting(i)
        /\ Len(gen.yielded) = Len(Before(i).yielded) + 1
        /\ gen.yielded[Len(gen.yielded)].literal # <<>>
        /\ parse_done

----------------------------------------------------------------------------
(* The snippet closed by the i-th line *)

\* the i-th line closes the snippet being collected
Closes(i) == HasEnd(i) /\ Collecting(i)

\* a node is handed out when the i-th line is read
Yields(i) == Len(Before(i + 1).yielded) = Len(Before(i).yielded) + 1

\* the lines collected for the snippet when the i-th line is read
Collected(i) == Before(i).builder[1].lines

\* the node yielded when the i-th line is read
YieldedAt(i) == Before(i + 1).yielded[Len(Before(i).yielded) + 1]

\* s without its first w characters, empty when s is shorter
Drop(s, w) == [k \in 1..(IF Len(s) > w THEN Len(s) - w ELSE 0) |-> s[k + w]]

\* s without the whitespace at its end
Trimmed(s) ==
    LET last == { k \in 1..Len(s) : s[k] \notin Whitespace }
        n    == IF last = {} THEN 0 ELSE CHOOSE k \in last : \A m \in last : m <= k
    IN [k \in 1..n |-> s[k]]

\* the text of the example: begin marker, two lines indented by 4, end marker
ExampleFile ==
    LET c == parse_language.line_comment IN
    <<BeginLine(c, K1), Content4Line, Content4Line, EndLine(c)>>

(* C11: the body of a yielded snippet with collected lines is these lines, *)
(* each without its first w characters (w the number of whitespace         *)
(* characters the first collected line starts with) and without trailing   *)
(* whitespace, joined by newlines; the example file yields one snippet k1  *)
(* whose body is the two lines without their indent                        *)

C11_FirstLineIndent ==
    /\ \A i \in DOMAIN code_file :
          (Closes(i) /\ Yields(i) /\ Collected(i) # <<>>) =>
              LET lines == Collected(i)
                  w     == CHOOSE n \in 0..Len(lines[1]) :
                              /\ \A k \in 1..n : lines[1][k] \in Whitespace
                              /\ n < Len(lines[1]) => lines[1][n + 1] \notin Whitespace
              IN YieldedAt(i).literal =
                    join(<<NL>>, [j \in 1..Len(lines) |-> Trimmed(Drop(lines[j], w))])
    /\ code_file = ExampleFile =>
          /\ Len(gen.yielded) = 1
          /\ gen.yielded[1].key = K1
          /\ gen.yielded[1].literal = <<"a", NL, "a">>

\* the example file has been read to its end, and so has a file whose second
\* collected line is shorter than the indentation of the first
C11_Witness ==
    /\ parse_done
    /\ \/ code_file = ExampleFile
       \/ /\ Len(code_file) = 4
          /\ code_file[2] = Content4Line /\ code_file[3] = BlankLine
          /\ Closes(4)
          /\ YieldedAt(4).literal = <<"a", NL>>

----------------------------------------------------------------------------
(* Begin markers *)

\* the number of whitespace-delimited tokens of s
TokenCount(s) ==
    Cardinality({ k \in 1..Len(s) :
                    /\ s[k] \notin Whitespace
                    /\ (k = 1 \/ s[k - 1] \in Whitespace) })

\* the i-th line is a begin marker without a name, read while no snippet is
\* collected
NamelessBegin(i) ==
    HasBegin(i) /\ TokenCount(code_file[i]) < 3 /\ ~Collecting(i)

(* C12: a begin-marker line without a third token, read while no snippet   *)
(* is collected, starts no snippet, yields nothing and adds exactly one    *)
(* 'Missing snippet name' warning for its line; the snippets yielded from  *)
(* the file and the snippet left open are those of the file without the    *)
(* line                                                                    *)

C12_NamelessBeginWarns ==
    \A i \in DOMAIN code_file :
        NamelessBegin(i) =>
            /\ Before(i + 1).builder = <<>>
            /\ Before(i + 1).yielded = Before(i).yielded
            /\ Len(Before(i + 1).warned) = Len(Before(i).warned) + 1
            /\ IsPrefix(Before(i).warned, Before(i + 1).warned)
            /\ LET w == Before(i + 1).warned[Len(Before(i + 1).warned)]
               IN w.msg = "Missing snippet name" /\ w.lineno = i
            /\ gen.yielded = WithoutLine(i).yielded
            /\ Open = WithoutLine(i).builder

\* a snippet has been yielded after a begin marker without a name
C12_Witness ==
    /\ parse_done
    /\ \E i \in DOMAIN code_file :
          /\ NamelessBegin(i)
          /\ Len(gen.yielded) > Len(Before(i).yielded)
          /\ Len(gen.warned) = 1

----------------------------------------------------------------------------
(* End of input *)

EndLines == { i \in DOMAIN code_file : HasEnd(i) }

\* the origin recorded in a yielded node: the line number of its source url
OriginIs(node, n) ==
    /\ "source_url" \in DOMAIN node
    /\ node.source_url = get_pretty_url(parse_language, 0) \o <<"#L">> \o repr(n)

\* nothing yielded, warned or dropped when the input ends
EndOfInputSilent ==
    (~parse_done /\ parse_done' /\ code_file' = code_file) => gen' = gen

C13_YieldedAtEndMarkers ==
    /\ Len(gen.yielded) <= Cardinality(EndLines)
    /\ LET F == Frames
           handed == { i \in DOMAIN code_file : F[i + 1].yielded # F[i].yielded }
       IN /\ \A i \in handed :
                /\ HasEnd(i) /\ F[i].builder # <<>>
                /\ Len(F[i + 1].yielded) = Len(F[i].yielded) + 1
          /\ Len(gen.yielded) = Cardinality(handed)
    /\ Open # <<>> =>
          /\ \A n \in DOMAIN gen.yielded :
                ~OriginIs(gen.yielded[n], Open[1].lineno)
          /\ \A n \in DOMAIN gen.warned :
                gen.warned[n].lineno < Open[1].lineno

(* C13: the snippets yielded are at most as many as the lines with the end *)
(* marker, each handed out at an end marker read while a snippet is        *)
(* collected; a snippet still open has not been yielded and has caused no  *)
(* warning, and the end of the input yields and warns nothing              *)

C13_UnterminatedNeverYielded ==
    []C13_YieldedAtEndMarkers /\ [][EndOfInputSilent]_vars

\* the input has ended after a yielded snippet, with another snippet open
\* that has collected a line
C13_Witness ==
    /\ parse_done
    /\ Len(gen.yielded) = 1
    /\ Open # <<>>
    /\ Open[1].lines # <<>>

----------------------------------------------------------------------------
(* Initialization *)

\* a step of initialize: it returns (phase read) or raises (err)
InitializeStep == phase = "start" /\ (phase' = "read" \/ err' # <<>>)

\* the setting is absent from conf.py
SettingAbsent == snippet_language_list = <<>>

\* the last entry of the list with key k
LastWith(list, k) ==
    list[CHOOSE i \in DOMAIN list :
            list[i].key = k /\ \A j \in DOMAIN list : list[j].key = k => j <= i]

(* C14: initialize raises the configuration error exactly when the setting *)
(* is absent; with an empty list it leaves no languages, an empty          *)
(* snippet_all and no placeholders; with a list it leaves one Language per *)
(* distinct key, made of the last entry with that key (stated as in the    *)
(* claim; does not hold: the setting is registered with a default)         *)

C14_ConfigurationErrorIffAbsent ==
    [][InitializeStep =>
          /\ err' # <<>> <=> SettingAbsent
          /\ err' # <<>> => err'[1] = "SphinxError"
          /\ ~SettingAbsent =>
                LET list == snippet_language_list[1] IN
                /\ snippet_all' = <<>>
                /\ snippet_display' = <<>>
                /\ DOMAIN snippet_languages'.vals =
                      { list[i].key : i \in DOMAIN list }
                /\ Range(snippet_languages'.keys) = DOMAIN snippet_languages'.vals
                /\ Len(snippet_languages'.keys) =
                      Cardinality(DOMAIN snippet_languages'.vals)
                /\ \A k \in DOMAIN snippet_languages'.vals :
                      snippet_languages'.vals[k] = Language(LastWith(list, k))]_vars

----------------------------------------------------------------------------
(* The store within a build *)

\* a step of resolve_snippets, whether it returns or raises
ResolutionStep == phase \in {"updated", "write"} /\ phase' = "write"

\* a step of SnippetDisplay.run
PlaceholderStep == phase = "read" /\ snippet_display' # snippet_display

(* C15: every step other than initialize leaves the elements snippet_all   *)
(* holds where they are (it may add elements at the end); a step of        *)
(* resolve_snippets and the registration of a placeholder leave            *)
(* snippet_all, snippet_languages and snippet_pulled as they are           *)

C15_AppendOnly ==
    [][~InitializeStep =>
          /\ IsPrefix(snippet_all, snippet_all')
          /\ (ResolutionStep \/ PlaceholderStep) =>
                /\ snippet_all' = snippet_all
                /\ snippet_languages' = snippet_languages
                /\ snippet_pulled' = snippet_pulled]_vars

\* an inline snippet registered before the fetch is followed in the store by
\* remote ones, and a placeholder of the build has been resolved with them
C15_Witness ==
    /\ phase = "write"
    /\ Len(snippet_all) > 1
    /\ ~IsRemote(snippet_all[1])
    /\ IsRemote(snippet_all[Len(snippet_all)])
    /\ \E id \in PlaceholderIds :
          Exists(id) /\ Len(Placeholder(id).children) > 1

----------------------------------------------------------------------------
(* Snippets without content *)

\* the k-th whitespace-delimited token of s
Token(s, k) ==
    LET starts == { i \in 1..Len(s) :
                      s[i] \notin Whitespace /\ (i = 1 \/ s[i - 1] \in Whitespace) }
        from   == CHOOSE i \in starts :
                      Cardinality({ j \in starts : j <= i }) = k
        to     == CHOOSE j \in from..Len(s) :
                      /\ \A h \in from..j : s[h] \notin Whitespace
                      /\ (j = Len(s) \/ s[j + 1] \in Whitespace)
    IN SubSeq(s, from, to)

\* the i-th line starts a snippet: a begin marker with a name, read while no
\* snippet is collected
NamedBegin(i) ==
    HasBegin(i) /\ TokenCount(code_file[i]) >= 3 /\ ~Collecting(i)

(* C16: a begin marker with a key, read while no snippet is collected and  *)
(* followed at once by a line with the end marker, yields exactly one      *)
(* snippet, with that key, the begin line as origin and an empty body, and *)
(* no warning                                                              *)

C16_EmptyBody ==
    \A i \in DOMAIN code_file :
        (NamedBegin(i) /\ i + 1 \in DOMAIN code_file /\ HasEnd(i + 1)) =>
            LET after == Before(i + 2) IN
            /\ Len(after.yielded) = Len(Before(i).yielded) + 1
            /\ IsPrefix(Before(i).yielded, after.yielded)
            /\ after.yielded[Len(after.yielded)].key = Token(code_file[i], 3)
            /\ after.yielded[Len(after.yielded)].literal = <<>>
            /\ OriginIs(after.yielded[Len(after.yielded)], i)
            /\ after.warned = Before(i).warned
            /\ after.builder = <<>>

\* the file of a begin marker k1 and an end marker has been read to its end
C16_Witness ==
    /\ parse_done
    /\ code_file = <<BeginLine(parse_language.line_comment, K1),
                     EndLine(parse_language.line_comment)>>
    /\ Len(gen.yielded) = 1
    /\ gen.yielded[1].literal = <<>>

----------------------------------------------------------------------------
(* The urls of a language *)

RemoteFields == {"gh_repository", "gh_branch", "gh_path"}

\* the decimal digits of a line number below 100
Decimal(n) ==
    LET d == <<"0", "1", "2", "3", "4", "5", "6", "7", "8", "9">>
    IN IF n < 10 THEN <<d[n + 1]>> ELSE <<d[(n \div 10) + 1], d[(n % 10) + 1]>>

RawTemplate(l) ==
    <<"https://raw.githubusercontent.com/">> \o l.gh_repository \o <<"/">>
        \o l.gh_branch \o <<"/">> \o l.gh_path

BrowsableTemplate(l) ==
    <<"https://github.com/">> \o l.gh_repository \o <<"/blob/">>
        \o l.gh_branch \o <<"/">> \o l.gh_path

(* C17: a configured language without all of gh_repository, gh_branch and  *)
(* gh_path has no raw url and no pretty url, with or without a line; for a *)
(* language with the three, the raw url is the raw template filled with    *)
(* them and the pretty url is the browsable template, followed by #L and   *)
(* the line number when a line is given; the urls requested by the fetch   *)
(* and recorded in the remote snippets are these urls                      *)

C17_Urls ==
    /\ \A k \in LanguageKeys :
          LET l == Languages[k] IN
          IF RemoteFields \subseteq DOMAIN l
          THEN /\ get_raw_url(l) = RawTemplate(l)
               /\ get_pretty_url(l, 0) = BrowsableTemplate(l)
               /\ \A n \in 1..MaxLineno :
                     get_pretty_url(l, n) =
                         BrowsableTemplate(l) \o <<"#L">> \o Decimal(n)
          ELSE /\ get_raw_url(l) = None
               /\ \A n \in 0..MaxLineno : get_pretty_url(l, n) = None
    /\ \A i \in DOMAIN urlopen_calls :
          LET l == Languages[urlopen_calls[i].language] IN
          /\ RemoteFields \subseteq DOMAIN l
          /\ urlopen_calls[i].url = RawTemplate(l)
    /\ \A i \in DOMAIN snippet_all :
          IsRemote(snippet_all[i]) =>
              LET l == Languages[snippet_all[i].language] IN
              /\ RemoteFields \subseteq DOMAIN l
              /\ \E n \in 1..MaxLineno :
                    snippet_all[i].source_url =
                        BrowsableTemplate(l) \o <<"#L">> \o Decimal(n)

\* the fetch has asked for the file of a language with a remote source and
\* stored its snippets, with a language configured that has no remote source
C17_Witness ==
    /\ Pulled
    /\ \E k \in LanguageKeys : ~(RemoteFields \subseteq DOMAIN Languages[k])
    /\ \E i \in DOMAIN urlopen_calls : urlopen_calls[i].response.kind = "ok"
    /\ \E i \in DOMAIN snippet_all : IsRemote(snippet_all[i])

----------------------------------------------------------------------------
(* The order of the three tests *)

\* the elements of a set of numbers in ascending order
RECURSIVE Ascending(_)
Ascending(S) ==
    IF S = {} THEN <<>>
    ELSE LET m == CHOOSE x \in S : \A y \in S : x <= y
         IN <<m>> \o Ascending(S \ {m})

(* C18: while a snippet is collected, a line without the end marker and    *)
(* the ignore marker is appended to the lines collected with its tabs      *)
(* expanded to 8-column stops, also when it holds the begin marker: the    *)
(* snippet collected keeps its key and origin, nothing is yielded and      *)
(* nothing warned; a line with the end marker closes the snippet whatever  *)
(* else it holds; the line ranges of the yielded snippets, from the begin  *)
(* line to the end line, follow one another without overlap                *)
(* (stated as in the claim; does not hold: at the end marker of a snippet  *)
(* that has collected a byte above 0x7F, to_node raises UnicodeDecodeError *)
(* and the snippet is neither yielded nor cleared)                         *)

C18_EndAppendBegin ==
    LET F == Frames IN
    /\ \A i \in DOMAIN code_file :
          (F[i].builder # <<>> /\ ~HasEnd(i) /\ ~HasIgnore(i)) =>
              /\ F[i + 1].builder =
                    <<[F[i].builder[1] EXCEPT
                          !.lines = Append(@, expandtabs(code_file[i], 8))]>>
              /\ code_file[i] = ContentTabLine =>
                    F[i + 1].builder[1].lines[Len(F[i].builder[1].lines) + 1] =
                        <<SP, SP, SP, SP, SP, SP, SP, SP, "b", SP, NL>>
              /\ F[i + 1].yielded = F[i].yielded
              /\ F[i + 1].warned = F[i].warned
    /\ \A i \in DOMAIN code_file :
          (F[i].builder # <<>> /\ HasEnd(i)) =>
              /\ F[i + 1].builder = <<>>
              /\ Len(F[i + 1].yielded) = Len(F[i].yielded) + 1
              /\ F[i + 1].warned = F[i].warned
    /\ LET closing == Ascending({ i \in DOMAIN code_file :
                                    F[i].builder # <<>> /\ HasEnd(i) })
       IN /\ Len(gen.yielded) = Len(closing)
          /\ \A n \in DOMAIN closing :
                LET start == F[closing[n]].builder[1].lineno IN
                /\ start < closing[n]
                /\ OriginIs(gen.yielded[n], start)
                /\ n > 1 => closing[n - 1] < start

----------------------------------------------------------------------------
(* Key and origin *)

(* C19: the n-th snippet yielded is the one handed out at the n-th         *)
(* end-marker line that yields a snippet; its origin is the number,        *)
(* counted from 1, of a line before that end line and after the end line   *)
(* of the snippet yielded before it, this line holds the begin marker, and *)
(* the key is the third whitespace-delimited token of this line            *)

C19_KeyAndOrigin ==
    LET F == Frames
        closing == Ascending({ i \in DOMAIN code_file :
                                 /\ F[i].builder # <<>> /\ HasEnd(i)
                                 /\ F[i + 1].yielded # F[i].yielded })
    IN /\ Len(gen.yielded) = Len(closing)
       /\ \A n \in DOMAIN closing :
             \E s \in 1..(closing[n] - 1) :
                 /\ OriginIs(gen.yielded[n], s)
                 /\ HasBegin(s)
                 /\ TokenCount(code_file[s]) >= 3
                 /\ gen.yielded[n].key = Token(code_file[s], 3)
                 /\ n > 1 => closing[n - 1] < s
                 /\ gen.yielded[n] = F[closing[n] + 1].yielded[n]
                 /\ Len(F[closing[n]].yielded) = n - 1

\* two snippets have been yielded, the second started by a line whose begin
\* marker is not at the start of the line
C19_Witness ==
    /\ parse_done
    /\ Len(gen.yielded) = 2
    /\ gen.yielded[1].key = K1
    /\ gen.yielded[2].key = parse_language.line_comment
    /\ OriginIs(gen.yielded[2], 3)

----------------------------------------------------------------------------
(* Where the lines of a body come from *)

\* the body made of collected lines: the indentation of the first line cut
\* from each, trailing whitespace cut, joined by newlines
BodyOf(lines) ==
    IF lines = <<>> THEN <<>>
    ELSE LET w == CHOOSE n \in 0..Len(lines[1]) :
                     /\ \A k \in 1..n : lines[1][k] \in Whitespace
                     /\ n < Len(lines[1]) => lines[1][n + 1] \notin Whitespace
         IN join(<<NL>>, [j \in 1..Len(lines) |-> Trimmed(Drop(lines[j], w))])

(* C20: the body of the snippet yielded at an end line is made of the      *)
(* lines strictly between the line that started it and that end line       *)
(* which hold neither the end marker nor the ignore marker, in file order  *)
(* and of no other line: no line with the end or the ignore marker and not *)
(* the starting line contributes to it                                     *)

C20_BodyProvenance ==
    LET F == Frames
        closing == Ascending({ i \in DOMAIN code_file :
                                 /\ F[i].builder # <<>> /\ HasEnd(i)
                                 /\ F[i + 1].yielded # F[i].yielded })
    IN /\ Len(gen.yielded) = Len(closing)
       /\ \A n \in DOMAIN closing :
             LET j == closing[n]
                 s == CHOOSE x \in 1..j : OriginIs(gen.yielded[n], x)
                 from == Ascending({ i \in (s + 1)..(j - 1) :
                                       ~HasEnd(i) /\ ~HasIgnore(i) })
             IN /\ \E x \in 1..(j - 1) : OriginIs(gen.yielded[n], x)
                /\ F[j].builder[1].lines =
                      [m \in DOMAIN from |-> expandtabs(code_file[from[m]], 8)]
                /\ gen.yielded[n].literal =
                      BodyOf([m \in DOMAIN from |-> expandtabs(code_file[from[m]], 8)])

\* a snippet has been yielded with one line of content, started by a line
\* with the begin marker, with a line with the ignore marker in between
C20_Witness ==
    /\ parse_done
    /\ Len(code_file) = 4
    /\ HasBegin(1) /\ HasIgnore(2) /\ ~HasEnd(2) /\ ~HasBegin(2)
    /\ code_file[3] = Content4Line
    /\ HasEnd(4)
    /\ Len(gen.yielded) = 1
    /\ gen.yielded[1].literal = <<"a">>

====
